---- MODULE Spec2Model ----
(***************************************************************************)
(* Model of the community-tracking REST backend.                           *)
(*                                                                         *)
(* The repository holds the same single-file service three times:          *)
(*   src/unnamed/part_000  users + communities + reports                   *)
(*   src/unnamed/part_001  users + communities (no reports)                *)
(*   src/server.js         users only; its register/login/user/options     *)
(*                         routes and verificarToken are the code of       *)
(*                         part_001 line for line                          *)
(* The variable `variant` says which file is running.  JavaScript values   *)
(* are tagged records so that `a || b`, JSON.stringify and JSON.parse are   *)
(* computed as the code computes them.                                     *)
(***************************************************************************)
EXTENDS Integers, Sequences, FiniteSets, TLC

VARIABLES
  variant,      \* which source file is the running program
  up,           \* the node process is alive
  now,          \* wall clock, in days
  users,        \* table users: set of rows
  userSeq,      \* last value of users_id_seq
  comunidades,  \* table comunidades: set of rows
  comSeq,       \* last value of comunidades_id_seq
  issued,       \* the tokens clients hold: the last one the server signed for each user id
  pending,      \* PUT /api/user requests between their SELECT and their UPDATE
  comparing,    \* POST /api/login requests between their SELECT and their answer
  resp,         \* the last request that finished, and its response
  initPc,       \* initDb: how many of its awaits have completed
  created,      \* the four tables exist
  etapas,       \* table etapas: set of rows
  etapaSeq,     \* last value of etapas_id_seq
  carismas,     \* table carismas: set of rows
  carismaSeq,   \* last value of carismas_id_seq
  reading       \* GET requests between their first SELECT and their second

\* what initDb works on
boot == <<initPc, created, etapas, etapaSeq, carismas, carismaSeq>>

vars == <<variant, up, now, users, userSeq, comunidades, comSeq, issued, pending, resp,
          boot, reading, comparing>>

----------------------------------------------------------------------------
(* Bounds of the model *)

MaxUserSeq == 2
MaxComSeq == 2
MaxPending == 2
MaxReading == 1
MaxComparing == 1
MaxNow == 8

(* Program constants *)

TokenTTL == 7

----------------------------------------------------------------------------
(* JavaScript values *)

Undef == [t |-> "undefined"]
Null == [t |-> "null"]
Str(s) == [t |-> "string", v |-> s]
Num(n) == [t |-> "number", v |-> n]
Bool(b) == [t |-> "boolean", v |-> b]
List(s) == [t |-> "array", v |-> s]
Obj(cid, nm) == [t |-> "object", carisma_id |-> cid, name |-> nm]
\* a TEXT value holding JSON: v is the sequence of its lexical tokens
Text(toks) == [t |-> "text", v |-> toks]

\* JavaScript truthiness, as `||`, `!x` and `if(x)` use it
Truthy(x) ==
  CASE x.t = "undefined" -> FALSE
    [] x.t = "null" -> FALSE
    [] x.t = "string" -> x.v # ""
    [] x.t = "text" -> Len(x.v) > 0
    [] x.t = "number" -> x.v # 0
    [] x.t = "boolean" -> x.v
    [] OTHER -> TRUE

\* a || b
Or(a, b) == IF Truthy(a) THEN a ELSE b

\* node-postgres sends an undefined parameter as NULL
PgParam(x) == IF x.t = "undefined" THEN Null ELSE x

----------------------------------------------------------------------------
(* JSON.stringify / JSON.parse over token sequences *)

LBr == [k |-> "["]
RBr == [k |-> "]"]
Comma == [k |-> ","]
Junk == [k |-> "junk"]
Scalar(x) == [k |-> "scalar", x |-> x]

RECURSIVE StringifyItems(_)
StringifyItems(s) ==
  IF Len(s) = 0 THEN <<>>
  ELSE IF Len(s) = 1 THEN <<Scalar(s[1])>>
  ELSE <<Scalar(s[1]), Comma>> \o StringifyItems(Tail(s))

\* JSON.stringify(x) for the values the handlers pass: an array of scalars/objects,
\* or one scalar/object
JSONStringify(x) ==
  IF x.t = "array" THEN Text(<<LBr>> \o StringifyItems(x.v) \o <<RBr>>)
  ELSE Text(<<Scalar(x)>>)

\* the elements between the brackets: item (, item)* ; <<>> for no element;
\* ok is FALSE when the tokens are not of that form
RECURSIVE ParseItems(_)
ParseItems(toks) ==
  IF Len(toks) = 0 THEN [ok |-> FALSE, v |-> <<>>]
  ELSE IF toks[1].k # "scalar" THEN [ok |-> FALSE, v |-> <<>>]
  ELSE IF Len(toks) = 1 THEN [ok |-> TRUE, v |-> <<toks[1].x>>]
  ELSE IF toks[2].k # "," THEN [ok |-> FALSE, v |-> <<>>]
  ELSE LET rest == ParseItems(SubSeq(toks, 3, Len(toks)))
       IN [ok |-> rest.ok, v |-> <<toks[1].x>> \o rest.v]

\* JSON.parse(text): ok = FALSE stands for the SyntaxError it throws
JSONParse(text) ==
  LET toks == text.v
      n == Len(toks)
  IN IF n = 0 THEN [ok |-> FALSE, val |-> Undef]
     ELSE IF n = 1 /\ toks[1].k = "scalar" THEN [ok |-> TRUE, val |-> toks[1].x]
     ELSE IF toks[1].k = "[" /\ toks[n].k = "]"
       THEN IF n = 2 THEN [ok |-> TRUE, val |-> List(<<>>)]
            ELSE LET items == ParseItems(SubSeq(toks, 2, n - 1))
                 IN [ok |-> items.ok, val |-> List(items.v)]
     ELSE [ok |-> FALSE, val |-> Undef]

----------------------------------------------------------------------------
(* bcrypt *)

\* bcrypt.hash(password, 10) of a string: a salted one-way digest, never the input
BcryptHash(password) == [t |-> "bcrypt", of |-> password.v]

\* bcrypt.hash and bcrypt.compare reject when the data is not a string
BcryptAccepts(password) == password.t = "string"

\* bcrypt.compare(password, hash)
BcryptCompare(password, hash) == hash.t = "bcrypt" /\ hash.of = password.v

----------------------------------------------------------------------------
(* Session tokens *)

SECRET == "c8f3d7b2c0a948cfa2e4eab7f1e6a92e1d4f3c7a99b24e8f5c1e76a3d2f9b8c1"

\* jwt.sign({id, email, is_admin}, SECRET, {expiresIn: '7d'}) at clock value `at`
gerarToken(user, at) ==
  [k |-> "jwt", id |-> user.id, email |-> user.email, is_admin |-> user.is_admin,
   iat |-> at, exp |-> at + TokenTTL, sig |-> SECRET]

\* mutant: a token still accepted at the instant it expires
JwtVerifyInclusive(seg, at) ==
  /\ Len(seg) = 1
  /\ seg[1].k = "jwt"
  /\ seg[1].sig = SECRET
  /\ at <= seg[1].exp

\* jwt.verify(token, SECRET): the signature is SECRET's and the clock is before exp
JwtVerify(seg, at) ==
  /\ Len(seg) = 1
  /\ seg[1].k = "jwt"
  /\ seg[1].sig = SECRET
  /\ at < seg[1].exp

\* the payload jwt.verify returns
JwtClaims(tok) ==
  [id |-> tok.id, email |-> tok.email, is_admin |-> tok.is_admin, iat |-> tok.iat,
   exp |-> tok.exp]

\* a client that logs in again drops the token it held for that user id
Keep(held, token) == {t \in held : t.id # token.id} \cup {token}

(* The Authorization header: undefined, or a string, held as the sequence of its
   pieces: a space, a word, or a token *)
Sp == [k |-> " "]
Word(w) == [k |-> "word", w |-> w]
Hdr(s) == [t |-> "header", v |-> s]

RECURSIVE FirstSp(_, _)
FirstSp(s, i) ==
  IF i > Len(s) THEN 0 ELSE IF s[i].k = " " THEN i ELSE FirstSp(s, i + 1)

\* header.split(' ')
RECURSIVE Split(_)
Split(s) ==
  LET i == FirstSp(s, 1)
  IN IF i = 0 THEN <<s>>
     ELSE <<SubSeq(s, 1, i - 1)>> \o Split(SubSeq(s, i + 1, Len(s)))

\* req.user before the guard has set it
NoUser == [id |-> 0, email |-> Undef, is_admin |-> Undef, iat |-> 0, exp |-> 0]
Deny(msg) == [ok |-> FALSE, error |-> msg, user |-> NoUser]
Allow(tok) == [ok |-> TRUE, error |-> "", user |-> JwtClaims(tok)]

\* part_000: three pieces or one piece are refused before jwt.verify
verificarToken000(header, at) ==
  IF header.t = "undefined" \/ Len(header.v) = 0 THEN Deny("Sem token")
  ELSE LET parts == Split(header.v)
       IN IF Len(parts) # 2 THEN Deny("Token invalido")
          ELSE IF JwtVerify(parts[2], at) THEN Allow(parts[2][1])
          ELSE Deny("Token invalido")

\* part_001 and server.js: header.split(' ')[1], undefined when there is one piece
verificarToken001(header, at) ==
  IF header.t = "undefined" \/ Len(header.v) = 0 THEN Deny("Sem token")
  ELSE LET parts == Split(header.v)
       IN IF Len(parts) >= 2 /\ JwtVerify(parts[2], at) THEN Allow(parts[2][1])
          ELSE Deny("Token invalido")

verificarToken(header) ==
  IF variant = "part_000" THEN verificarToken000(header, now)
  ELSE verificarToken001(header, now)

----------------------------------------------------------------------------
(* Responses *)

(* resp holds the last request answered (or abandoned): the route, the request
   body and path parameters, req.user as the handler saw it, and what was sent *)

NoData == [t |-> "undefined"]

\* res.status(status).json({error: msg})
ErrorJson(op, arg, user, status, msg) ==
  [op |-> op, arg |-> arg, user |-> user, status |-> status, kind |-> "error",
   error |-> msg, data |-> NoData]

\* res.json(data)
Json(op, arg, user, kind, data) ==
  [op |-> op, arg |-> arg, user |-> user, status |-> 200, kind |-> kind, error |-> "",
   data |-> data]

\* no response was written
NoResponse(op, arg, user) ==
  [op |-> op, arg |-> arg, user |-> user, status |-> 0, kind |-> "none", error |-> "",
   data |-> NoData]

\* the framework's own page, not JSON
Html(op, arg, user, status) ==
  [op |-> op, arg |-> arg, user |-> user, status |-> status, kind |-> "html",
   error |-> "", data |-> NoData]

(* A promise rejected inside an async handler outside any try/catch.  What
   follows depends on the express and node versions the deployment installs,
   which the repository does not pin: express 4 never answers the request, and
   node either logs the unhandled rejection or exits on it; express 5 answers
   with its own 500 page. *)
UnhandledRejection(op, arg, user) ==
  \/ resp' = NoResponse(op, arg, user) /\ up' = TRUE
  \/ resp' = NoResponse(op, arg, user) /\ up' = FALSE
  \/ resp' = Html(op, arg, user, 500) /\ up' = TRUE

\* the guard's refusal: next() is not called
Reply401(op, arg, g) ==
  /\ resp' = ErrorJson(op, arg, NoUser, 401, g.error)
  /\ UNCHANGED <<variant, comparing, up, now, users, userSeq, comunidades, comSeq, issued, pending,
                 boot, reading>>

\* a statement sent with pool.query executes: the database answers and, until
\* initDb has run its CREATE TABLE statement on a new database, the tables exist
Runs(dbOk) == dbOk /\ created

----------------------------------------------------------------------------
(* Table users *)

\* mutant: the column declared without UNIQUE
UsersUniqueDropped(rows) == TRUE

\* mutant: only the primary key is unique, email is an ordinary column
UsersUniqueOnId(rows) ==
  \A a, b \in rows : a.id = b.id => a = b

\* email TEXT UNIQUE: what the table accepts (a NULL email never conflicts)
UsersUnique(rows) ==
  \A a, b \in rows : (a.email.t # "null" /\ a.email = b.email) => a.id = b.id

\* INSERT INTO users (name,email,password,is_admin) VALUES ($1,$2,$3,$4)
UserRow(id, name, email, hash, is_admin) ==
  [id |-> id, name |-> PgParam(name), email |-> PgParam(email), password |-> hash,
   is_admin |-> PgParam(is_admin)]

\* SELECT * FROM users WHERE email = $1
UsersByEmail(email) == {u \in users : email.t # "undefined" /\ u.email = email}

\* SELECT * FROM users WHERE id = $1
UsersById(id) == {u \in users : u.id = id}

\* UPDATE users SET name=$1,email=$2,password=$3 WHERE id=$4
UpdateUserRows(rows, id, name, email, hash) ==
  {IF u.id = id
     THEN [u EXCEPT !.name = PgParam(name), !.email = PgParam(email), !.password = hash]
     ELSE u : u \in rows}

----------------------------------------------------------------------------
(* POST /api/register *)

RegisterArg(name, email, password, is_admin) ==
  [name |-> name, email |-> email, password |-> password, is_admin |-> is_admin]

Register(name, email, password, is_admin, dbOk) ==
  LET arg == RegisterArg(name, email, password, is_admin)
      row == UserRow(userSeq + 1, Or(name, Str("")), email, BcryptHash(password),
                     Or(is_admin, Bool(FALSE)))
      token == gerarToken(row, now)
  IN
  /\ up
  /\ userSeq < MaxUserSeq
  /\ IF ~Truthy(email) \/ ~Truthy(password)
       THEN /\ resp' = ErrorJson("register", arg, NoUser, 400, "Email e senha obrigatorios")
            /\ UNCHANGED <<up, users, userSeq, issued>>
     ELSE IF ~BcryptAccepts(password)
       THEN /\ UnhandledRejection("register", arg, NoUser)
            /\ UNCHANGED <<users, userSeq, issued>>
     ELSE IF ~Runs(dbOk)
       THEN /\ resp' = ErrorJson("register", arg, NoUser, 400, "Email ja cadastrado")
            /\ UNCHANGED <<up, users, userSeq, issued>>
     ELSE IF ~UsersUnique(users \cup {row})
       THEN \* the sequence value drawn for the rejected row is not given back
            /\ resp' = ErrorJson("register", arg, NoUser, 400, "Email ja cadastrado")
            /\ userSeq' = userSeq + 1
            /\ UNCHANGED <<up, users, issued>>
     ELSE /\ users' = users \cup {row}
          /\ userSeq' = userSeq + 1
          /\ issued' = Keep(issued, token)
          /\ resp' = Json("register", arg, NoUser, "token",
                          [token |-> token,
                           user |-> [id |-> row.id, email |-> row.email,
                                     is_admin |-> row.is_admin]])
          /\ UNCHANGED up
  /\ UNCHANGED <<variant, comparing, now, comunidades, comSeq, pending, boot, reading>>

----------------------------------------------------------------------------
(* POST /api/login *)

LoginArg(email, password) == [email |-> email, password |-> password]

\* a login that has read its row and waits for bcrypt.compare
Comparing(arg, user) == [arg |-> arg, user |-> user]

(* The SELECT.  With no row the handler answers at once; with a row it calls
   bcrypt.compare, which rejects at once when an argument is not a string and
   otherwise resolves later, other requests' statements running meanwhile. *)
Login(email, password, dbOk) ==
  LET arg == LoginArg(email, password)
      r == UsersByEmail(email)
  IN
  /\ up
  /\ Cardinality(comparing) < MaxComparing
  /\ IF ~Runs(dbOk)
       THEN UnhandledRejection("login", arg, NoUser) /\ UNCHANGED comparing
     ELSE IF r = {}
       THEN /\ resp' = ErrorJson("login", arg, NoUser, 400, "Usuario nao encontrado")
            /\ UNCHANGED <<up, comparing>>
     ELSE LET user == CHOOSE u \in r : TRUE
          IN IF ~BcryptAccepts(password)
               THEN UnhandledRejection("login", arg, NoUser) /\ UNCHANGED comparing
             ELSE /\ comparing' = comparing \cup {Comparing(arg, user)}
                  /\ UNCHANGED <<up, resp>>
  /\ UNCHANGED <<variant, now, users, userSeq, comunidades, comSeq, issued, pending, boot,
                 reading>>

(* bcrypt.compare has resolved: the token is signed and the answer built from
   the row the SELECT returned, whatever the table holds by now. *)
LoginReply(c) ==
  LET user == c.user
      token == gerarToken(user, now)
  IN
  /\ up
  /\ c \in comparing
  /\ comparing' = comparing \ {c}
  /\ IF ~BcryptCompare(c.arg.password, user.password)
       THEN /\ resp' = ErrorJson("login", c.arg, NoUser, 400, "Senha incorreta")
            /\ UNCHANGED issued
     ELSE /\ issued' = Keep(issued, token)
          /\ resp' = Json("login", c.arg, NoUser, "token",
                          [token |-> token,
                           user |-> [id |-> user.id, email |-> user.email,
                                     name |-> user.name,
                                     is_admin |-> user.is_admin]])
  /\ UNCHANGED <<variant, up, now, users, userSeq, comunidades, comSeq, pending, boot,
                 reading>>

----------------------------------------------------------------------------
(* PUT /api/user: the guard and the SELECT, then (after the awaits) the UPDATE *)

UserArg(name, email, password) == [name |-> name, email |-> email, password |-> password]

UserSelect(header, name, email, password, dbOk) ==
  LET arg == UserArg(name, email, password)
      g == verificarToken(header)
      r == UsersById(g.user.id)
  IN
  /\ up
  /\ IF ~g.ok THEN Reply401("user", arg, g)
     ELSE /\ IF ~Runs(dbOk)
               THEN UnhandledRejection("user", arg, g.user) /\ UNCHANGED pending
             ELSE IF r = {}
               THEN /\ resp' = ErrorJson("user", arg, g.user, 404, "Usuario nao encontrado")
                    /\ UNCHANGED <<up, pending>>
             ELSE IF Truthy(password) /\ ~BcryptAccepts(password)
               THEN UnhandledRejection("user", arg, g.user) /\ UNCHANGED pending
             ELSE LET row == CHOOSE u \in r : TRUE
                      p == [arg |-> arg, user |-> g.user, row |-> row]
                  IN /\ Cardinality(pending \cup {p}) <= MaxPending
                     /\ pending' = pending \cup {p}
                     /\ UNCHANGED <<up, resp>>
          /\ UNCHANGED <<variant, comparing, now, users, userSeq, comunidades, comSeq,
                         issued, boot, reading>>

UserUpdate(p, dbOk) ==
  LET body == p.arg
      hash == IF Truthy(body.password) THEN BcryptHash(body.password)
              ELSE p.row.password
      rows == UpdateUserRows(users, p.user.id, Or(body.name, p.row.name),
                             Or(body.email, p.row.email), hash)
  IN
  /\ up
  /\ p \in pending
  /\ pending' = pending \ {p}
  /\ IF ~Runs(dbOk) \/ ~UsersUnique(rows)
       THEN /\ resp' = ErrorJson("user", p.arg, p.user, 400,
                               IF variant = "part_000"
                                 THEN "Erro ao atualizar (email pode ja estar em uso)"
                                 ELSE "Erro ao atualizar (email ja usado)")
            /\ UNCHANGED users
     ELSE /\ users' = rows
          /\ resp' = Json("user", p.arg, p.user, "ok", NoData)
  /\ UNCHANGED <<variant, comparing, up, now, userSeq, comunidades, comSeq, issued, boot, reading>>

----------------------------------------------------------------------------
(* initDb: creates the tables and seeds etapas and carismas.  It is started
   without being awaited and app.listen runs right after, so requests are
   served while it is still at one of its awaits.  No route writes etapas or
   carismas. *)

EtapasNomes == <<"Iniciacao", "Formacao", "Missao", "Consolidacao">>
CarismasNomes == <<"Encontro", "Animacao", "Acolhida", "Evangelizacao", "Liturgia">>

\* the two tables once initDb has seeded a new database
EtapasRows == {[id |-> i, nome |-> EtapasNomes[i]] : i \in 1..Len(EtapasNomes)}
CarismasRows == {[id |-> i, nome |-> CarismasNomes[i]] : i \in 1..Len(CarismasNomes)}

\* the awaits of initDb: pool.connect, the CREATE TABLE statement, one INSERT per name
InitConnected == 1
InitCreated == 2
InitEtapasDone == InitCreated + Len(EtapasNomes)
InitEnd == InitEtapasDone + Len(CarismasNomes)

\* INSERT INTO t (nome) VALUES ($1) ON CONFLICT (nome) DO NOTHING, the id drawn
\* from the sequence whose last value is seq
InsertNome(rows, seq, nome) ==
  IF \E r \in rows : r.nome = nome THEN rows
  ELSE rows \cup {[id |-> seq + 1, nome |-> nome]}

(* pool.connect() is awaited before the try block, so its rejection leaves
   initDb as a rejected promise.  part_000 calls initDb().catch(...), which logs
   it.  part_001 and server.js call initDb() bare: the rejection is unhandled
   at process level, which node logs or exits on, by version (not pinned). *)
ConnectRefused ==
  IF variant = "part_000" THEN UNCHANGED up ELSE up' \in BOOLEAN

(* initDb resumes after its next await.  A statement the database refuses is
   thrown inside the try block: the error is logged (the catch block of
   part_001 and server.js, the .catch of part_000) and initDb is over. *)
InitDb(dbOk) ==
  /\ up
  /\ initPc < InitEnd
  /\ IF ~dbOk
       THEN /\ initPc' = InitEnd
            /\ IF initPc < InitConnected THEN ConnectRefused ELSE UNCHANGED up
            /\ UNCHANGED <<created, etapas, etapaSeq, carismas, carismaSeq>>
     ELSE /\ initPc' = initPc + 1
          /\ UNCHANGED up
          /\ IF initPc < InitConnected
               THEN UNCHANGED <<created, etapas, etapaSeq, carismas, carismaSeq>>
             ELSE IF initPc < InitCreated
               THEN /\ created' = TRUE   \* IF NOT EXISTS: tables already there are kept
                    /\ UNCHANGED <<etapas, etapaSeq, carismas, carismaSeq>>
             ELSE IF initPc < InitEtapasDone
               THEN /\ etapas' = InsertNome(etapas, etapaSeq,
                                            EtapasNomes[initPc - InitCreated + 1])
                    /\ etapaSeq' = etapaSeq + 1
                    /\ UNCHANGED <<created, carismas, carismaSeq>>
             ELSE /\ carismas' = InsertNome(carismas, carismaSeq,
                                            CarismasNomes[initPc - InitEtapasDone + 1])
                  /\ carismaSeq' = carismaSeq + 1
                  /\ UNCHANGED <<created, etapas, etapaSeq>>
  /\ UNCHANGED <<variant, comparing, now, users, userSeq, comunidades, comSeq, issued, pending,
                 resp, reading>>

----------------------------------------------------------------------------
(* Table comunidades *)

ComFields ==
  {"numero_comunidade", "nome_diocese", "nome_bispo", "nome_cidade", "nome_paroquia",
   "nome_paroco", "nome_vigario", "qtd_total", "qtd_jovens", "etapa_id",
   "data_formacao", "data_ultima_etapa", "levantados_json", "carismas_json"}

\* the 14 parameters of INSERT and UPDATE in part_000
ComVals000(data) ==
  [numero_comunidade |-> PgParam(data.numero_comunidade),
   nome_diocese |-> PgParam(data.nome_diocese),
   nome_bispo |-> PgParam(data.nome_bispo),
   nome_cidade |-> PgParam(data.nome_cidade),
   nome_paroquia |-> PgParam(data.nome_paroquia),
   nome_paroco |-> PgParam(data.nome_paroco),
   nome_vigario |-> PgParam(data.nome_vigario),
   qtd_total |-> Or(data.qtd_total, Num(0)),
   qtd_jovens |-> Or(data.qtd_jovens, Num(0)),
   etapa_id |-> Or(data.etapa_id, Null),
   data_formacao |-> Or(data.data_formacao, Null),
   data_ultima_etapa |-> Or(data.data_ultima_etapa, Null),
   levantados_json |-> JSONStringify(Or(data.levantados, List(<<>>))),
   carismas_json |-> JSONStringify(Or(data.carismas, List(<<>>)))]

\* the 14 parameters of INSERT and UPDATE in part_001
ComVals001(data) ==
  [numero_comunidade |-> PgParam(data.numero_comunidade),
   nome_diocese |-> PgParam(data.nome_diocese),
   nome_bispo |-> PgParam(data.nome_bispo),
   nome_cidade |-> PgParam(data.nome_cidade),
   nome_paroquia |-> PgParam(data.nome_paroquia),
   nome_paroco |-> PgParam(data.nome_paroco),
   nome_vigario |-> PgParam(data.nome_vigario),
   qtd_total |-> PgParam(data.qtd_total),
   qtd_jovens |-> PgParam(data.qtd_jovens),
   etapa_id |-> PgParam(data.etapa_id),
   data_formacao |-> PgParam(data.data_formacao),
   data_ultima_etapa |-> PgParam(data.data_ultima_etapa),
   levantados_json |-> JSONStringify(Or(data.levantados, List(<<>>))),
   carismas_json |-> JSONStringify(Or(data.carismas, List(<<>>)))]

ComVals(data) == IF variant = "part_000" THEN ComVals000(data) ELSE ComVals001(data)

\* a row: the generated id and the 14 columns
ComRow(id, vals) == [f \in ComFields \cup {"id"} |-> IF f = "id" THEN Num(id) ELSE vals[f]]

\* etapa_id INTEGER REFERENCES etapas(id)
EtapaFkOk(vals) ==
  vals.etapa_id.t = "null" \/ \E e \in etapas : vals.etapa_id = Num(e.id)

\* the :id path parameter as the integer column compares it: a numeric text selects
\* by value, any other text makes the statement fail
IdParamOk(id) == id.t = "number"

\* SELECT * FROM comunidades WHERE id = $1
ComsById(id) == {c \in comunidades : c.id = id}

\* mutant: SET col = COALESCE($n, col), a patch that keeps what the body leaves out
UpdateComRowsPatch(rows, id, vals) ==
  {IF c.id = id
     THEN [f \in DOMAIN c |->
             IF f = "id" \/ vals[f].t = "null" THEN c[f] ELSE vals[f]]
     ELSE c : c \in rows}

\* UPDATE comunidades SET ... WHERE id=$15
UpdateComRows(rows, id, vals) ==
  {IF c.id = id THEN [f \in DOMAIN c |-> IF f = "id" THEN c.id ELSE vals[f]] ELSE c :
     c \in rows}

\* mutant: a DELETE that matches nothing empties the table
DeleteComRowsOrAll(rows, id) ==
  IF \E c \in rows : c.id = id THEN {c \in rows : c.id # id} ELSE {}

\* DELETE FROM comunidades WHERE id = $1
DeleteComRows(rows, id) == {c \in rows : c.id # id}

\* ORDER BY id DESC
RECURSIVE OrderByIdDesc(_)
OrderByIdDesc(rows) ==
  IF rows = {} THEN <<>>
  ELSE LET top == CHOOSE c \in rows : \A d \in rows : d.id.v <= c.id.v
       IN <<top>> \o OrderByIdDesc(rows \ {top})

\* the orders a SELECT without ORDER BY may return the rows in
RowOrders(rows) ==
  {s \in [1..Cardinality(rows) -> rows] : \A i, j \in DOMAIN s : i # j => s[i] # s[j]}

----------------------------------------------------------------------------
(* Reading the embedded lists *)

\* JSON.parse(text || '[]')
ParseOrEmpty(text) == JSONParse(Or(text, JSONStringify(List(<<>>))))

\* part_000 GET routes: {...row, levantados: JSON.parse(..), carismas: JSON.parse(..)}
RowParses(row) ==
  ParseOrEmpty(row.levantados_json).ok /\ ParseOrEmpty(row.carismas_json).ok

WithLists(row) ==
  [row |-> row,
   levantados |-> ParseOrEmpty(row.levantados_json).val,
   carismas |-> ParseOrEmpty(row.carismas_json).val]

\* part_001 GET /api/comunidades/:id answers the row as stored: no levantados or
\* carismas property
Raw(row) == [row |-> row, levantados |-> Undef, carismas |-> Undef]

RECURSIVE MapWithLists(_)
MapWithLists(s) ==
  IF Len(s) = 0 THEN <<>> ELSE <<WithLists(Head(s))>> \o MapWithLists(Tail(s))

\* LEFT JOIN etapas e ON e.id = c.etapa_id: e.nome, NULL for a row without a stage
EtapaNome(row) ==
  IF \E e \in etapas : row.etapa_id = Num(e.id)
    THEN Str((CHOOSE e \in etapas : row.etapa_id = Num(e.id)).nome)
  ELSE Null

\* part_001 GET /api/comunidades: SELECT c.*, e.nome AS etapa_nome, answered as is
RawJoined(row) ==
  [row |-> row, levantados |-> Undef, carismas |-> Undef, etapa_nome |-> EtapaNome(row)]

RECURSIVE MapRaw(_)
MapRaw(s) == IF Len(s) = 0 THEN <<>> ELSE <<RawJoined(Head(s))>> \o MapRaw(Tail(s))

----------------------------------------------------------------------------
(* Community routes *)

ComArg(id, data) == [id |-> id, data |-> data]

\* POST /api/comunidades
CreateCom(header, data, dbOk) ==
  LET arg == ComArg(Undef, data)
      g == verificarToken(header)
      vals == ComVals(data)
      row == ComRow(comSeq + 1, vals)
  IN
  /\ up
  /\ comSeq < MaxComSeq
  /\ IF ~g.ok THEN Reply401("create", arg, g)
     ELSE /\ IF ~Runs(dbOk)
               THEN /\ IF variant = "part_000" THEN UnhandledRejection("create", arg, g.user)
                       ELSE /\ resp' = ErrorJson("create", arg, g.user, 400, "Erro ao criar comunidade")
                            /\ UNCHANGED up
                    /\ UNCHANGED <<comunidades, comSeq>>
             ELSE IF ~EtapaFkOk(vals)
               THEN /\ IF variant = "part_000" THEN UnhandledRejection("create", arg, g.user)
                       ELSE /\ resp' = ErrorJson("create", arg, g.user, 400, "Erro ao criar comunidade")
                            /\ UNCHANGED up
                    /\ comSeq' = comSeq + 1
                    /\ UNCHANGED comunidades
             ELSE /\ comunidades' = comunidades \cup {row}
                  /\ comSeq' = comSeq + 1
                  /\ resp' = IF variant = "part_000"
                               THEN Json("create", arg, g.user, "id", row.id)
                               ELSE Json("create", arg, g.user, "row", Raw(row))
                  /\ UNCHANGED up
          /\ UNCHANGED <<variant, comparing, now, users, userSeq, issued, pending, boot, reading>>

\* GET /api/comunidades
ListCom(header, dbOk) ==
  LET arg == ComArg(Undef, Undef)
      g == verificarToken(header)
      rows == OrderByIdDesc(comunidades)
  IN
  /\ up
  /\ IF ~g.ok THEN Reply401("list", arg, g)
     ELSE /\ IF ~Runs(dbOk) THEN UnhandledRejection("list", arg, g.user)
             ELSE IF variant = "part_000"
               THEN IF \A c \in comunidades : RowParses(c)
                      THEN /\ resp' = Json("list", arg, g.user, "rows", MapWithLists(rows))
                           /\ UNCHANGED up
                    ELSE UnhandledRejection("list", arg, g.user)
             ELSE /\ resp' = Json("list", arg, g.user, "rows", MapRaw(rows))
                  /\ UNCHANGED up
          /\ UNCHANGED <<variant, comparing, now, users, userSeq, comunidades, comSeq, issued,
                         pending, boot, reading>>

\* GET /api/comunidades/:id
GetCom(header, id, dbOk) ==
  LET arg == ComArg(id, Undef)
      g == verificarToken(header)
      r == ComsById(id)
  IN
  /\ up
  /\ IF ~g.ok THEN Reply401("get", arg, g)
     ELSE /\ IF ~Runs(dbOk) \/ ~IdParamOk(id) THEN UnhandledRejection("get", arg, g.user)
             ELSE IF r = {}
               THEN /\ resp' = ErrorJson("get", arg, g.user, 404,
                                       IF variant = "part_000" THEN "Nao encontrado"
                                       ELSE "Comunidade nao encontrada")
                    /\ UNCHANGED up
             ELSE LET row == CHOOSE c \in r : TRUE
                  IN IF variant = "part_000"
                       THEN IF RowParses(row)
                              THEN /\ resp' = Json("get", arg, g.user, "row", WithLists(row))
                                   /\ UNCHANGED up
                            ELSE UnhandledRejection("get", arg, g.user)
                     ELSE /\ resp' = Json("get", arg, g.user, "row", Raw(row))
                          /\ UNCHANGED up
          /\ UNCHANGED <<variant, comparing, now, users, userSeq, comunidades, comSeq, issued,
                         pending, boot, reading>>

\* PUT /api/comunidades/:id
UpdateCom(header, id, data, dbOk) ==
  LET arg == ComArg(id, data)
      g == verificarToken(header)
      vals == ComVals(data)
      rows == UpdateComRows(comunidades, id, vals)
      fails == ~Runs(dbOk) \/ ~IdParamOk(id) \/ (ComsById(id) # {} /\ ~EtapaFkOk(vals))
  IN
  /\ up
  /\ IF ~g.ok THEN Reply401("update", arg, g)
     ELSE /\ IF fails
               THEN /\ IF variant = "part_000" THEN UnhandledRejection("update", arg, g.user)
                       ELSE /\ resp' = ErrorJson("update", arg, g.user, 400,
                                                 "Erro ao atualizar comunidade")
                            /\ UNCHANGED up
                    /\ UNCHANGED comunidades
             ELSE /\ comunidades' = rows
                  /\ resp' = IF variant = "part_000" THEN Json("update", arg, g.user, "ok", NoData)
                             ELSE IF ComsById(id) = {}
                               THEN Json("update", arg, g.user, "empty", NoData)
                             ELSE Json("update", arg, g.user, "row",
                                       Raw(CHOOSE c \in rows : c.id = id))
                  /\ UNCHANGED up
          /\ UNCHANGED <<variant, comparing, now, users, userSeq, comSeq, issued,
                         pending, boot, reading>>

\* DELETE /api/comunidades/:id
DeleteCom(header, id, dbOk) ==
  LET arg == ComArg(id, Undef)
      g == verificarToken(header)
  IN
  /\ up
  /\ IF ~g.ok THEN Reply401("delete", arg, g)
     ELSE /\ IF ~Runs(dbOk) \/ ~IdParamOk(id)
               THEN UnhandledRejection("delete", arg, g.user) /\ UNCHANGED comunidades
             ELSE /\ comunidades' = DeleteComRows(comunidades, id)
                  /\ resp' = Json("delete", arg, g.user, "ok", NoData)
                  /\ UNCHANGED up
          /\ UNCHANGED <<variant, comparing, now, users, userSeq, comSeq, issued,
                         pending, boot, reading>>

\* a GET request suspended at its second await, holding what its first SELECT returned
Reading(op, arg, user, first) == [op |-> op, arg |-> arg, user |-> user, first |-> first]

\* GET /api/options: the guard and SELECT * FROM etapas
Options(header, dbOk) ==
  LET arg == ComArg(Undef, Undef)
      g == verificarToken(header)
  IN
  /\ up
  /\ IF ~g.ok THEN Reply401("options", arg, g)
     ELSE /\ IF ~Runs(dbOk)
               THEN UnhandledRejection("options", arg, g.user) /\ UNCHANGED reading
             ELSE LET q == Reading("options", arg, g.user, etapas)
                  IN /\ Cardinality(reading \cup {q}) <= MaxReading
                     /\ reading' = reading \cup {q}
                     /\ UNCHANGED <<up, resp>>
          /\ UNCHANGED <<variant, comparing, now, users, userSeq, comunidades, comSeq,
                         issued, pending,
                         boot>>

\* GET /api/options: SELECT * FROM carismas and the response
OptionsReply(q, dbOk) ==
  /\ up
  /\ q \in reading
  /\ q.op = "options"
  /\ reading' = reading \ {q}
  /\ IF ~Runs(dbOk) THEN UnhandledRejection("options", q.arg, q.user)
     ELSE /\ resp' = Json("options", q.arg, q.user, "options",
                          [etapas |-> q.first, carismas |-> carismas])
          /\ UNCHANGED up
  /\ UNCHANGED <<variant, comparing, now, users, userSeq, comunidades, comSeq, issued,
                 pending, boot>>


----------------------------------------------------------------------------
(* GET /api/relatorios/:tipo (part_000 only) *)

\* for(const item of arr) runs: arr is an array or a string, the two iterable
\* values JSON.parse can return
Iterable(x) == x.t \in {"array", "string"}

\* the characters of a string, each a string of length one
RECURSIVE Chars(_)
Chars(s) ==
  IF Len(s) = 0 THEN <<>> ELSE <<Str(SubSeq(s, 1, 1))>> \o Chars(SubSeq(s, 2, Len(s)))

\* the values the loop visits: the elements of an array, the characters of a string
LoopItems(x) == IF x.t = "string" THEN Chars(x.v) ELSE x.v

\* item.carisma_id: a TypeError on null, undefined on a scalar
CanRead(item) == item.t \notin {"null", "undefined"}
CarismaIdOf(item) == IF item.t = "object" THEN item.carisma_id ELSE Undef

\* the row's carismas_json decodes and both loops of the tally run over it
TallyRuns(row) ==
  LET p == ParseOrEmpty(row.carismas_json)
  IN /\ p.ok
     /\ Iterable(p.val)
     /\ \A i \in 1..Len(LoopItems(p.val)) : CanRead(LoopItems(p.val)[i])

Digits == <<"0", "1", "2", "3", "4", "5", "6", "7", "8", "9">>

\* String(n) of an integer
RECURSIVE NumberToString(_)
NumberToString(n) ==
  IF n < 0 THEN "-" \o NumberToString(0 - n)
  ELSE IF n < 10 THEN Digits[n + 1]
  ELSE NumberToString(n \div 10) \o Digits[(n % 10) + 1]

RECURSIVE PropertyKey(_)
RECURSIVE ArrayJoin(_)

\* Array.prototype.toString: the elements' strings joined by commas, null and
\* undefined elements as the empty string
ArrayJoin(s) ==
  IF Len(s) = 0 THEN ""
  ELSE LET first == IF s[1].t \in {"null", "undefined"} THEN "" ELSE PropertyKey(s[1])
       IN IF Len(s) = 1 THEN first ELSE first \o "," \o ArrayJoin(Tail(s))

\* contagem[k]: the property name a JavaScript value is converted to
PropertyKey(k) ==
  CASE k.t = "number" -> NumberToString(k.v)
    [] k.t = "string" -> k.v
    [] k.t = "boolean" -> IF k.v THEN "true" ELSE "false"
    [] k.t = "null" -> "null"
    [] k.t = "undefined" -> "undefined"
    [] k.t = "array" -> ArrayJoin(k.v)
    [] OTHER -> "[object Object]"

\* how often the row's list names charism id: contagem[item.carisma_id] += 1,
\* read back as contagem[c.id]
RowCount(row, id) ==
  LET arr == LoopItems(ParseOrEmpty(row.carismas_json).val)
  IN Cardinality({i \in 1..Len(arr) :
                   PropertyKey(CarismaIdOf(arr[i])) = PropertyKey(Num(id))})

RECURSIVE Contagem(_, _)
Contagem(rows, id) ==
  IF rows = {} THEN 0
  ELSE LET r == CHOOSE c \in rows : TRUE
       IN RowCount(r, id) + Contagem(rows \ {r}, id)

\* car.rows.map(c => ({nome: c.nome, total: contagem[c.id] || 0})), contagem
\* tallied over the rows the first SELECT returned
RelatorioCarismas(rows) ==
  {[nome |-> c.nome, total |-> Contagem(rows, c.id)] : c \in carismas}

\* the row's levantados_json decodes to something the loop runs over
FlattenRuns(row) ==
  LET p == ParseOrEmpty(row.levantados_json) IN p.ok /\ Iterable(p.val)

\* for(const row of r.rows) for(const v of arr) todos.push(v)
RECURSIVE Todos(_)
Todos(s) ==
  IF Len(s) = 0 THEN <<>>
  ELSE LoopItems(ParseOrEmpty(Head(s).levantados_json).val) \o Todos(Tail(s))

\* SELECT nome_diocese, COUNT(*) FROM comunidades GROUP BY nome_diocese
RelatorioDiocese(rows) ==
  {[nome_diocese |-> d, total |-> Cardinality({c \in rows : c.nome_diocese = d})] :
     d \in {c.nome_diocese : c \in rows}}

\* SELECT e.nome, COUNT(c.id) FROM comunidades c JOIN etapas e ON e.id=c.etapa_id GROUP BY e.nome
RelatorioEtapas(rows) ==
  {[etapa |-> e.nome, total |-> Cardinality({c \in rows : c.etapa_id = Num(e.id)})] :
     e \in {x \in etapas : \E c \in rows : c.etapa_id = Num(x.id)}}

RelArg(tipo) == [tipo |-> tipo]

\* mutant: the admin flag of the claims is not looked at
IsAdminAnyone(user) == TRUE

\* !req.user.is_admin is false: the claims carry a truthy admin flag
IsAdmin(user) == Truthy(user.is_admin)

\* the charism report is at its second await: `first` holds the rows of comunidades
TallyRead(arg, user) == Reading("relatorio", arg, user, comunidades)

Relatorio(header, tipo, dbOk) ==
  LET arg == RelArg(tipo)
      g == verificarToken(header)
  IN
  /\ up
  /\ variant = "part_000"   \* part_001 and server.js define no such route
  /\ IF ~g.ok THEN Reply401("relatorio", arg, g)
     ELSE /\ IF ~Runs(dbOk) \/ tipo # "carismas" \/ ~IsAdmin(g.user)
                  \/ \E c \in comunidades : ~TallyRuns(c)
               THEN UNCHANGED reading
             ELSE /\ Cardinality(reading \cup {TallyRead(arg, g.user)}) <= MaxReading
                  /\ reading' = reading \cup {TallyRead(arg, g.user)}
          /\ IF ~IsAdmin(g.user)
               THEN /\ resp' = ErrorJson("relatorio", arg, g.user, 403, "Acesso restrito")
                    /\ UNCHANGED up
             ELSE IF tipo \notin {"diocese", "etapas", "carismas", "vocacionados"}
               THEN /\ resp' = Json("relatorio", arg, g.user, "list", <<>>)
                    /\ UNCHANGED up
             ELSE IF ~Runs(dbOk) THEN UnhandledRejection("relatorio", arg, g.user)
             ELSE IF tipo = "diocese"
               THEN /\ resp' = Json("relatorio", arg, g.user, "groups", RelatorioDiocese(comunidades))
                    /\ UNCHANGED up
             ELSE IF tipo = "etapas"
               THEN /\ resp' = Json("relatorio", arg, g.user, "groups", RelatorioEtapas(comunidades))
                    /\ UNCHANGED up
             ELSE IF tipo = "carismas"
               THEN IF \A c \in comunidades : TallyRuns(c)
                      THEN UNCHANGED <<up, resp>>   \* on to SELECT * FROM carismas
                    ELSE UnhandledRejection("relatorio", arg, g.user)
             ELSE IF \A c \in comunidades : FlattenRuns(c)
               THEN /\ \E order \in RowOrders(comunidades) :
                         resp' = Json("relatorio", arg, g.user, "list", Todos(order))
                    /\ UNCHANGED up
             ELSE UnhandledRejection("relatorio", arg, g.user)
          /\ UNCHANGED <<variant, comparing, now, users, userSeq, comunidades, comSeq,
                         issued, pending,
                         boot>>

\* the charism report: SELECT * FROM carismas and the response
RelatorioReply(q, dbOk) ==
  /\ up
  /\ q \in reading
  /\ q.op = "relatorio"
  /\ reading' = reading \ {q}
  /\ IF ~Runs(dbOk) THEN UnhandledRejection("relatorio", q.arg, q.user)
     ELSE /\ resp' = Json("relatorio", q.arg, q.user, "groups", RelatorioCarismas(q.first))
          /\ UNCHANGED up
  /\ UNCHANGED <<variant, comparing, now, users, userSeq, comunidades, comSeq, issued,
                 pending, boot>>

----------------------------------------------------------------------------
(* The clock *)

\* d days pass
Tick(d) ==
  /\ now + d <= MaxNow
  /\ now' = now + d
  /\ UNCHANGED <<variant, comparing, up, users, userSeq, comunidades, comSeq, issued, pending, resp,
                 boot, reading>>

----------------------------------------------------------------------------
(* Request inputs *)

Names == {Undef, Str("Ana")}
Emails == {Undef, Str("a@x"), Str("b@x")}
Passwords == {Undef, Str("pw1"), Str("pw2"), Num(5)}
Admins == {Undef, Bool(TRUE)}

\* a token signed with another key, claiming to be an administrator
ForgedToken ==
  [k |-> "jwt", id |-> 1, email |-> Str("a@x"), is_admin |-> Bool(TRUE),
   iat |-> 0, exp |-> MaxNow + TokenTTL, sig |-> "attacker"]

Bearer(tok) == Hdr(<<Word("Bearer"), Sp, tok>>)

\* every shape of Authorization header around the tokens in circulation
Headers ==
  {Undef, Hdr(<<>>), Hdr(<<Word("Bearer")>>)}
    \cup {Bearer(ForgedToken)}
    \cup UNION {{Bearer(tok),
                 Hdr(<<Word("Basic"), Sp, tok>>),
                 Hdr(<<tok>>),
                 Hdr(<<Word("Bearer"), Sp, Sp, tok>>),
                 Hdr(<<Word("Bearer"), Sp, tok, Sp, Word("x")>>)} : tok \in issued}

\* the headers of well-behaved clients
TokenHeaders == {Bearer(tok) : tok \in issued}
ClientHeaders == {Undef} \cup TokenHeaders

EmptyBody ==
  [numero_comunidade |-> Undef, nome_diocese |-> Undef, nome_bispo |-> Undef,
   nome_cidade |-> Undef, nome_paroquia |-> Undef, nome_paroco |-> Undef,
   nome_vigario |-> Undef, qtd_total |-> Undef, qtd_jovens |-> Undef,
   etapa_id |-> Undef, data_formacao |-> Undef, data_ultima_etapa |-> Undef,
   levantados |-> Undef, carismas |-> Undef]

FullBody ==
  [numero_comunidade |-> Str("12"), nome_diocese |-> Str("Olinda"),
   nome_bispo |-> Str("Jose"), nome_cidade |-> Str("Recife"),
   nome_paroquia |-> Str("Carmo"), nome_paroco |-> Str("Joao"),
   nome_vigario |-> Str("Pedro"), qtd_total |-> Num(30), qtd_jovens |-> Num(12),
   etapa_id |-> Num(2), data_formacao |-> Str("2020-01-01"),
   data_ultima_etapa |-> Str("2021-01-01"),
   levantados |-> List(<<Obj(Undef, Str("X"))>>),
   carismas |-> List(<<Obj(Num(2), Undef)>>)]

\* the lists of FullBody the other way round, and longer
OtherBody ==
  [FullBody EXCEPT !.nome_diocese = Str("Natal"), !.qtd_total = Num(0),
                   !.etapa_id = Num(4),
                   !.levantados = List(<<Obj(Undef, Str("Y")), Obj(Undef, Str("X"))>>),
                   !.carismas = List(<<Obj(Num(6), Undef), Obj(Num(2), Undef),
                                       Obj(Str("2"), Undef),
                                       Obj(List(<<Num(2)>>), Undef)>>)]

\* qtd_jovens, the stage, a date and one list left out; the other list empty
PartialBody ==
  [FullBody EXCEPT !.qtd_jovens = Undef, !.etapa_id = Undef, !.data_formacao = Undef,
                   !.nome_bispo = Undef, !.levantados = List(<<>>), !.carismas = Undef]

Bodies == {EmptyBody, FullBody, OtherBody, PartialBody}

\* bodies with a stage that does not exist, or with embedded values that are
\* not lists of objects: a number and a null element (the report loops throw),
\* strings (the report loops run over their characters)
BadBodies ==
  {[EmptyBody EXCEPT !.etapa_id = Num(9)],
   [EmptyBody EXCEPT !.levantados = Num(7), !.carismas = List(<<Null>>)],
   [EmptyBody EXCEPT !.levantados = Str("ab"), !.carismas = Str("2")]}

IdParams == {Num(i) : i \in 1..(MaxComSeq + 1)}

\* a path parameter that is not a number
BadId == Str("abc")

Tipos == {"diocese", "etapas", "carismas", "vocacionados", "outro"}

----------------------------------------------------------------------------
(* Initial states *)

\* a row written by something other than these routes (the tables are created
\* IF NOT EXISTS): the columns no INSERT of the routes can leave NULL or undecodable
LegacyRow(lev, car) ==
  [f \in ComFields \cup {"id"} |->
     IF f = "id" THEN Num(1)
     ELSE IF f = "levantados_json" THEN lev
     ELSE IF f = "carismas_json" THEN car
     ELSE Null]

Malformed == Text(<<LBr, Junk>>)

LegacyTables ==
  {{},
   {LegacyRow(Null, Text(<<>>))},
   {LegacyRow(Malformed, JSONStringify(List(<<>>)))},
   {LegacyRow(JSONStringify(List(<<>>)), Malformed)}}

NoResp == NoResponse("none", Undef, NoUser)

\* the process has just started: nobody has called it yet
Started ==
  /\ variant \in {"part_000", "part_001"}
  /\ up = TRUE
  /\ now = 0
  /\ users = {}
  /\ userSeq = 0
  /\ issued = {}
  /\ pending = {}
  /\ comparing = {}
  /\ reading = {}
  /\ resp = NoResp

\* a database no run of the service has touched: no table yet
NewDatabase ==
  /\ created = FALSE
  /\ etapas = {} /\ etapaSeq = 0
  /\ carismas = {} /\ carismaSeq = 0
  /\ comunidades = {} /\ comSeq = 0

\* a database an earlier run initialised `runs` times, holding one of `tables`
\* in comunidades (every run draws a sequence value for every name it inserts)
OldDatabase(tables, runs) ==
  /\ created = TRUE
  /\ etapas = EtapasRows /\ etapaSeq = runs * Len(EtapasNomes)
  /\ carismas = CarismasRows /\ carismaSeq = runs * Len(CarismasNomes)
  /\ comunidades \in tables
  /\ comSeq = Cardinality(comunidades)

\* module load: initDb() has been called and is at its first await, app.listen
\* has run; the database is new or was initialised by an earlier run
InitWith(tables) ==
  /\ Started
  /\ initPc = 0
  /\ NewDatabase \/ OldDatabase(tables, 1)

\* the same process once initDb has finished over an initialised database
BootedWith(tables) ==
  /\ Started
  /\ initPc = InitEnd
  /\ OldDatabase(tables, 2)

Init == InitWith(LegacyTables)

InitEmpty == InitWith({{}})

Booted == BootedWith(LegacyTables)

BootedEmpty == BootedWith({{}})

----------------------------------------------------------------------------
(* Specifications *)

(* Registration: every input of the route. *)
NextRegister ==
  \E n \in Names, e \in Emails, p \in Passwords, a \in Admins, ok \in BOOLEAN :
    Register(n, e, p, a, ok)

SpecRegister == BootedEmpty /\ [][NextRegister]_vars

(* Login: every input of the route, the steps of concurrent logins interleaved
   with each other, with registrations and with changes of email (each change
   sent one at a time). *)
NextLogin ==
  \/ \E e \in Emails \ {Undef} : Register(Str("Ana"), e, Str("pw1"), Undef, TRUE)
  \/ \E e \in Emails, p \in Passwords, ok \in BOOLEAN : Login(e, p, ok)
  \/ \E c \in comparing : LoginReply(c)
  \/ /\ pending = {}
     /\ \E h \in TokenHeaders : UserSelect(h, Undef, Str("b@x"), Undef, TRUE)
  \/ \E p \in pending : UserUpdate(p, TRUE)

SpecLogin == BootedEmpty /\ [][NextLogin]_vars

(* Users: register and PUT /api/user, the statements of concurrent requests
   interleaved with each other and with initDb. *)
NextUsers ==
  \/ \E e \in Emails \ {Undef} : Register(Undef, e, Str("pw1"), Undef, TRUE)
  \/ \E h \in TokenHeaders, e \in Emails \ {Undef} : UserSelect(h, Undef, e, Undef, TRUE)
  \/ \E p \in pending : UserUpdate(p, TRUE)
  \/ \E ok \in BOOLEAN : InitDb(ok)

SpecUsers == InitEmpty /\ [][NextUsers]_vars

(* Profile changes: PUT /api/user requests that each supply one field, the
   statements of concurrent requests of the same user interleaved. *)
SelfBodies ==
  {UserArg(Str("Bia"), Undef, Undef),
   UserArg(Undef, Str("b@x"), Undef),
   UserArg(Undef, Undef, Str("pw2"))}

NextSelf ==
  \/ \E e \in Emails \ {Undef} : Register(Str("Ana"), e, Str("pw1"), Undef, TRUE)
  \/ \E h \in TokenHeaders, b \in SelfBodies :
       UserSelect(h, b.name, b.email, b.password, TRUE)
  \/ \E p \in pending : UserUpdate(p, TRUE)

SpecSelf == BootedEmpty /\ [][NextSelf]_vars

(* The session guard: every guarded route under every header shape, the clock
   running past the tokens' expiry. *)
\* the routes behind verificarToken, called with header h
GuardedRoutes(h) ==
  \/ UserSelect(h, Str("Ana"), Undef, Undef, TRUE)
  \/ Options(h, TRUE)
  \/ CreateCom(h, FullBody, TRUE)
  \/ ListCom(h, TRUE)
  \/ GetCom(h, Num(1), TRUE)
  \/ UpdateCom(h, Num(1), EmptyBody, TRUE)
  \/ DeleteCom(h, Num(1), TRUE)
  \/ Relatorio(h, "diocese", TRUE)

NextGuard ==
  \/ Register(Undef, Str("a@x"), Str("pw1"), Bool(TRUE), TRUE)
  \/ \E h \in Headers : GuardedRoutes(h)
  \/ \E p \in pending : UserUpdate(p, TRUE)
  \/ \E q \in reading : OptionsReply(q, TRUE)
  \/ Tick(TokenTTL)

SpecGuard == BootedEmpty /\ [][NextGuard]_vars

(* Token lifetime: tokens issued on different days, logins, profile changes
   and probes of a guarded route, day after day.  A login may run while a
   profile change is in flight; a probe is sent when nothing else is in flight
   and is answered within the day. *)
NextClock ==
  \/ Register(Undef, Str("a@x"), Str("pw1"), Undef, TRUE)
  \/ /\ comparing = {}
     /\ Login(Str("a@x"), Str("pw1"), TRUE)
  \/ \E c \in comparing : LoginReply(c)
  \/ /\ pending = {} /\ comparing = {}
     /\ \E h \in TokenHeaders : UserSelect(h, Undef, Str("b@x"), Str("pw2"), TRUE)
  \/ \E p \in pending : UserUpdate(p, TRUE)
  \/ /\ reading = {} /\ pending = {} /\ comparing = {}
     /\ \E h \in TokenHeaders : Options(h, TRUE)
  \/ \E q \in reading : OptionsReply(q, TRUE)
  \/ /\ reading = {}
     /\ Tick(1)

SpecClock == BootedEmpty /\ [][NextClock]_vars

(* Communities: every body and id, over tables that may hold rows the routes
   did not write. *)
NextComs ==
  \/ \E a \in Admins : Register(Undef, Str("a@x"), Str("pw1"), a, TRUE)
  \/ \E h \in TokenHeaders, d \in Bodies : CreateCom(h, d, TRUE)
  \/ \E h \in TokenHeaders : ListCom(h, TRUE)
  \/ \E h \in TokenHeaders, id \in IdParams : GetCom(h, id, TRUE)
  \/ \E h \in TokenHeaders, id \in IdParams, d \in Bodies : UpdateCom(h, id, d, TRUE)
  \/ \E h \in TokenHeaders, id \in IdParams : DeleteCom(h, id, TRUE)

Spec == Booted /\ [][NextComs]_vars

(* Reports and the other read routes: every report type, asked by an
   administrator or by an ordinary user, while communities are created and
   deleted, over tables that may hold rows the routes did not write. *)
NextReports ==
  \/ \E a \in Admins : Register(Undef, Str("a@x"), Str("pw1"), a, TRUE)
  \/ \E h \in TokenHeaders, d \in {FullBody, OtherBody} : CreateCom(h, d, TRUE)
  \/ \E h \in TokenHeaders, id \in IdParams : DeleteCom(h, id, TRUE)
  \/ \E h \in TokenHeaders : ListCom(h, TRUE)
  \/ \E h \in TokenHeaders, id \in IdParams : GetCom(h, id, TRUE)
  \/ \E h \in TokenHeaders, t \in Tipos : Relatorio(h, t, TRUE)
  \/ \E q \in reading : RelatorioReply(q, TRUE)

SpecReports == Booted /\ [][NextReports]_vars

(* Failures: every route with statements that fail and inputs that make a
   library call or a loop throw. *)
NextFail ==
  \/ \E p \in {Str("pw1"), Num(5)}, ok \in BOOLEAN :
       Register(Undef, Str("a@x"), p, Bool(TRUE), ok)
  \/ \E p \in {Undef, Str("pw1")}, ok \in BOOLEAN : Login(Str("a@x"), p, ok)
  \/ \E c \in comparing : LoginReply(c)
  \/ \E h \in TokenHeaders, p \in {Undef, Num(5)}, ok \in BOOLEAN :
       UserSelect(h, Undef, Undef, p, ok)
  \/ \E p \in pending, ok \in BOOLEAN : UserUpdate(p, ok)
  \/ \E h \in TokenHeaders, ok \in BOOLEAN : Options(h, ok)
  \/ \E h \in TokenHeaders, d \in BadBodies \cup {FullBody}, ok \in BOOLEAN :
       CreateCom(h, d, ok)
  \/ \E h \in TokenHeaders, ok \in BOOLEAN : ListCom(h, ok)
  \/ \E h \in TokenHeaders, id \in {Num(1), BadId}, ok \in BOOLEAN : GetCom(h, id, ok)
  \/ \E h \in TokenHeaders, id \in {Num(1), BadId}, d \in BadBodies, ok \in BOOLEAN :
       UpdateCom(h, id, d, ok)
  \/ \E h \in TokenHeaders, id \in {Num(1), BadId}, ok \in BOOLEAN : DeleteCom(h, id, ok)
  \/ \E h \in TokenHeaders, t \in Tipos, ok \in BOOLEAN : Relatorio(h, t, ok)
  \/ \E q \in reading, ok \in BOOLEAN : OptionsReply(q, ok)
  \/ \E q \in reading, ok \in BOOLEAN : RelatorioReply(q, ok)

SpecFail == BootedEmpty /\ [][NextFail]_vars

(* Start-up: requests served while initDb is still creating and seeding the
   tables, or after it gave up. *)
NextBoot ==
  \/ \E ok \in BOOLEAN : InitDb(ok)
  \/ Register(Undef, Str("a@x"), Str("pw1"), Bool(TRUE), TRUE)
  \/ Login(Str("a@x"), Str("pw1"), TRUE)
  \/ \E c \in comparing : LoginReply(c)
  \/ \E h \in TokenHeaders : Options(h, TRUE)
  \/ \E q \in reading : OptionsReply(q, TRUE)
  \/ \E h \in TokenHeaders : CreateCom(h, FullBody, TRUE)
  \/ \E h \in TokenHeaders : ListCom(h, TRUE)
  \/ \E h \in TokenHeaders : DeleteCom(h, Num(1), TRUE)
  \/ \E h \in TokenHeaders : Relatorio(h, "carismas", TRUE)
  \/ \E q \in reading : RelatorioReply(q, TRUE)

SpecBoot == Init /\ [][NextBoot]_vars

----------------------------------------------------------------------------
(* C1: the session guard *)

\* `Bearer <token>` with a token whose signature and expiry verify
ValidBearer(h) ==
  /\ h.t = "header"
  /\ Len(h.v) = 3
  /\ h.v[1] = Word("Bearer")
  /\ h.v[2] = Sp
  /\ h.v[3].k = "jwt"
  /\ h.v[3].sig = SECRET
  /\ now < h.v[3].exp

\* the request was answered 401 and nothing stored or in flight changed
Refused ==
  /\ resp'.status = 401
  /\ resp'.kind = "error"
  /\ resp'.user = NoUser
  /\ UNCHANGED <<users, userSeq, comunidades, comSeq, pending, reading>>

(* C1: on every guarded route, a request whose Authorization header is absent,
   is not of the form `Bearer <token>`, or carries a token that fails
   signature/expiry verification is answered 401 with users and communities
   unchanged; a request the handler runs for carries a valid bearer token and
   sees that token's claims. *)
C1_OnlyValidBearerPasses ==
  [][\A h \in Headers :
       GuardedRoutes(h) =>
         IF ValidBearer(h)
           THEN /\ resp' # resp => resp'.status # 401 /\ resp'.user = JwtClaims(h.v[3])
                /\ \A p \in pending' \ pending : p.user = JwtClaims(h.v[3])
                /\ \A q \in reading' \ reading : q.user = JwtClaims(h.v[3])
         ELSE Refused]_vars

----------------------------------------------------------------------------
(* C2: registering an email twice *)

EmailRegistered(email) == \E u \in users : u.email = email

\* a register request that passes the presence checks and reaches the INSERT
WellFormedRegister(r) ==
  /\ r.op = "register"
  /\ Truthy(r.arg.email)
  /\ r.arg.password.t = "string"
  /\ Truthy(r.arg.password)

(* C2: a register call for an email that is already stored answers 400 "Email
   ja cadastrado", stores no user, issues no token, and leaves every stored
   user record as it was. *)
C2_SecondRegisterConflicts ==
  [][(WellFormedRegister(resp') /\ EmailRegistered(resp'.arg.email)) =>
       /\ resp'.status = 400
       /\ resp'.kind = "error"
       /\ resp'.error = "Email ja cadastrado"
       /\ users' = users
       /\ issued' = issued]_vars

\* a second registration of a stored email, with another name and password, was refused
C2_Witness ==
  /\ WellFormedRegister(resp)
  /\ resp.status = 400
  /\ resp.error = "Email ja cadastrado"
  /\ \E u \in users :
       /\ u.email = resp.arg.email
       /\ u.password # BcryptHash(resp.arg.password)
       /\ u.name # Or(resp.arg.name, Str(""))
       /\ u.is_admin # Or(resp.arg.is_admin, Bool(FALSE))

----------------------------------------------------------------------------
(* C3: emails are unique *)

EmailsUnique == \A a, b \in users : a.email = b.email => a = b

\* the email the UPDATE of in-flight request p writes
NewEmail(p) == Or(p.arg.email, p.row.email)

CollidesWithOther(p) == \E u \in users : u.id # p.user.id /\ u.email = NewEmail(p)

(* C3: no two stored users ever have the same email, whatever the interleaving
   of register and PUT /api/user statements; a PUT /api/user whose new email is
   another user's answers 400 and changes no user record. *)
C3_EmailUnique ==
  /\ []EmailsUnique
  /\ [][\A p \in pending :
          (UserUpdate(p, TRUE) /\ CollidesWithOther(p)) =>
            /\ resp'.status = 400
            /\ resp'.kind = "error"
            /\ users' = users]_vars

\* a PUT /api/user asking for the email of another stored user was refused
C3_Witness ==
  /\ resp.op = "user"
  /\ resp.status = 400
  /\ Cardinality(users) >= 2
  /\ \E u \in users : u.id # resp.user.id /\ u.email = resp.arg.email
  /\ \E u \in users : u.id = resp.user.id /\ u.email # resp.arg.email

----------------------------------------------------------------------------
(* C4: token lifetime *)

(* C4: a token the server issued at day T passes the guard on every day before
   T + 7 and is refused from day T + 7 on (jsonwebtoken refuses when the clock
   has reached exp), whatever has happened to the user's row since: the guard
   gives the handler the claims signed at T even after the email and the
   password were changed. *)
C4_TokenLifetime ==
  \A tok \in issued :
    LET g == verificarToken(Bearer(tok))
    IN /\ now < tok.iat + TokenTTL => g.ok /\ g.user = JwtClaims(tok)
       /\ now >= tok.iat + TokenTTL => ~g.ok

\* on the last day of a token, after its user's email and password were changed,
\* a guarded route answered a request carrying it
C4_Witness ==
  \E tok \in issued, u \in users :
    /\ u.id = tok.id
    /\ u.email # tok.email
    /\ u.password # BcryptHash(Str("pw1"))
    /\ now = tok.iat + TokenTTL - 1
    /\ tok.iat > 0
    /\ verificarToken(Bearer(tok)).ok
    /\ resp.op = "options"
    /\ resp.status = 200
    /\ resp.user = JwtClaims(tok)

----------------------------------------------------------------------------
(* C5: failed logins *)

\* a login with an email and a password that one of the two checks refused
LoginRefused(r) ==
  /\ r.op = "login"
  /\ r.arg.email.t = "string"
  /\ r.arg.password.t = "string"
  /\ r.status # 200

(* C5: any two failed logins, one for an email no user has and one for a wrong
   password, get the same status and body, and the body never holds the stored
   hash. *)
C5_FailedLoginsAlike ==
  [][(LoginRefused(resp) /\ LoginRefused(resp')) =>
       /\ resp'.status = resp.status
       /\ resp'.error = resp.error
       /\ resp'.data = NoData]_vars

----------------------------------------------------------------------------
(* C6: create, then fetch *)

\* the create just answered stored a row, from a body that supplied both lists
CreatedWithLists(r) ==
  /\ r.op = "create"
  /\ r.status = 200
  /\ r.arg.data.levantados.t = "array"
  /\ r.arg.data.carismas.t = "array"

(* C6: a community created with levantados = L and carismas = C and then
   fetched by its id comes back as a record whose two lists are L and C, equal
   in content and order. *)
C6_RoundTrip ==
  [][(CreatedWithLists(resp) /\ resp'.op = "get" /\ resp'.arg.id = Num(comSeq)) =>
       /\ resp'.status = 200
       /\ resp'.kind = "row"
       /\ resp'.data.levantados = resp.arg.data.levantados
       /\ resp'.data.carismas = resp.arg.data.carismas]_vars

----------------------------------------------------------------------------
(* C7: errors at the request boundary *)

(* C7: every request ends with a JSON body (on failure {error: message}), none
   is left without a response, and the process keeps serving. *)
C7_AllErrorsAnswered ==
  /\ up
  /\ resp.op # "none" => resp.kind \notin {"none", "html"}

----------------------------------------------------------------------------
(* C8: malformed stored lists on the read paths *)

\* stored text that JSON.parse refuses
MalformedText(x) == x.t = "text" /\ Len(x.v) > 0 /\ ~JSONParse(x).ok

\* the handler of a read route ran for the last request, and these are the rows it read
ReadRows(r) ==
  IF r.user = NoUser THEN {}
  ELSE IF r.op = "list" THEN comunidades
  ELSE IF r.op = "get" THEN ComsById(r.arg.id)
  ELSE IF r.op = "relatorio" /\ Truthy(r.user.is_admin)
          /\ r.arg.tipo \in {"carismas", "vocacionados"} THEN comunidades
  ELSE {}

\* the fields of row c the last request decoded
FieldsRead(r) ==
  IF r.op = "relatorio"
    THEN IF r.arg.tipo = "carismas" THEN {"carismas_json"} ELSE {"levantados_json"}
  ELSE {"levantados_json", "carismas_json"}

\* what the response gives for a decoded field of row c, for list and getById
ListShown(r, c, f) ==
  LET shown == IF r.op = "get" THEN {r.data}
               ELSE {r.data[i] : i \in 1..Len(r.data)}
      e == CHOOSE x \in shown : x.row = c
  IN IF f = "levantados_json" THEN e.levantados ELSE e.carismas

(* C8: on list, getById, the charism report and the vocation-candidates report,
   a stored levantados_json or carismas_json that is malformed counts as the
   empty list and the request succeeds. *)
C8_MalformedReadsAsEmpty ==
  \A c \in ReadRows(resp) : \A f \in FieldsRead(resp) :
    MalformedText(c[f]) =>
      /\ resp.status = 200
      /\ resp.op \in {"list", "get"} => ListShown(resp, c, f) = List(<<>>)

----------------------------------------------------------------------------
(* C9: deleting what is not there *)

ComIds(rows) == {c.id : c \in rows}

(* C9: DELETE of an id no community has answers {ok:true} and changes no table;
   after any DELETE of an id, deleting that id again changes nothing more. *)
C9_DeleteMissingIsNoOp ==
  [][\A h \in TokenHeaders, id \in IdParams :
       DeleteCom(h, id, TRUE) =>
         /\ resp'.status = 200
         /\ resp'.kind = "ok"
         /\ id \notin ComIds(comunidades) =>
              UNCHANGED <<users, userSeq, comunidades, comSeq, issued, pending>>
         /\ id \notin ComIds(comunidades')
         /\ DeleteComRows(comunidades', id) = comunidades'
         /\ \A c \in comunidades : c.id # id => c \in comunidades']_vars

\* an id no row ever had was deleted while other communities were stored
C9_Witness ==
  /\ resp.op = "delete"
  /\ resp.status = 200
  /\ resp.kind = "ok"
  /\ resp.arg.id.v > comSeq
  /\ comunidades # {}

----------------------------------------------------------------------------
(* C10: update replaces every mutable field *)

TextColumns ==
  {"numero_comunidade", "nome_diocese", "nome_bispo", "nome_cidade", "nome_paroquia",
   "nome_paroco", "nome_vigario", "data_formacao", "data_ultima_etapa", "etapa_id"}

\* column f of the updated row holds what body d asks for under full replace
Replaced(row, d, f) ==
  IF d[f].t = "undefined" THEN row[f] = Null ELSE row[f] = d[f]

ReplacedCount(row, d, f) ==
  IF d[f].t = "undefined" THEN row[f] \in {Null, Num(0)} ELSE row[f] = d[f]

ReplacedList(text, supplied) ==
  /\ text.t = "text"
  /\ JSONParse(text).ok
  /\ JSONParse(text).val = IF supplied.t = "undefined" THEN List(<<>>) ELSE supplied

FullyReplaced(row, d) ==
  /\ \A f \in TextColumns : Replaced(row, d, f)
  /\ ReplacedCount(row, d, "qtd_total")
  /\ ReplacedCount(row, d, "qtd_jovens")
  /\ ReplacedList(row.levantados_json, d.levantados)
  /\ ReplacedList(row.carismas_json, d.carismas)

(* C10: after an update of an existing community, every field the body left
   out is stored as NULL (a count as 0 or NULL, a list as the empty list)
   whatever it held before, every field supplied holds the value supplied, and
   no other community changes. *)
C10_UpdateIsFullReplace ==
  [][\A h \in TokenHeaders, id \in IdParams, d \in Bodies :
       (UpdateCom(h, id, d, TRUE) /\ ComsById(id) # {}) =>
         /\ resp'.status = 200
         /\ ComIds(comunidades') = ComIds(comunidades)
         /\ \A c \in comunidades' :
              IF c.id = id THEN FullyReplaced(c, d) ELSE c \in comunidades]_vars

\* a community that held a youth count and two lists was updated with a body
\* that left them out, next to another community
C10_Witness ==
  /\ resp.op = "update"
  /\ resp.status = 200
  /\ resp.arg.data.qtd_jovens = Undef
  /\ resp.arg.data.carismas = Undef
  /\ resp.arg.data.nome_diocese # Undef
  /\ \E c \in comunidades :
       /\ c.id = resp.arg.id
       /\ c.qtd_jovens \in {Null, Num(0)}
       /\ c.carismas_json = JSONStringify(List(<<>>))
  /\ \E c \in comunidades : c.id # resp.arg.id /\ c.qtd_jovens = Num(12)

----------------------------------------------------------------------------
(* C11: the charism report *)

\* the lexical tokens of a stored list (none for NULL)
StoredTokens(x) == IF x.t = "text" THEN x.v ELSE <<>>

\* the association names charism id, as a number or as its decimal text
Refers(x, id) ==
  /\ x.t = "object"
  /\ x.carisma_id \in {Num(id), Str(Digits[id + 1])}

\* the places in the stored charism lists of the communities `rows` that name
\* charism id
Occurrences(rows, id) ==
  {p \in UNION {{<<c.id, i>> : i \in 1..Len(StoredTokens(c.carismas_json))} :
                  c \in rows} :
     \E c \in rows :
       /\ c.id = p[1]
       /\ StoredTokens(c.carismas_json)[p[2]].k = "scalar"
       /\ Refers(StoredTokens(c.carismas_json)[p[2]].x, id)}

(* C11: an answered charism report has exactly one entry per charism of the
   enumeration and no other entry, and each entry's total is the number of
   occurrences of the charism's id in the charism lists of the communities
   that were stored when the report read them, 0 when none names it. *)
C11_CharismTotals ==
  [][\A q \in reading :
       RelatorioReply(q, TRUE) =>
         /\ resp'.status = 200
         /\ Cardinality(resp'.data) = Cardinality(carismas)
         /\ \A c \in carismas :
              /\ Cardinality({e \in resp'.data : e.nome = c.nome}) = 1
              /\ \A e \in resp'.data :
                   e.nome = c.nome =>
                     e.total = Cardinality(Occurrences(q.first, c.id))]_vars

----------------------------------------------------------------------------
(* C12: reports are for administrators and change nothing *)

\* a report request leaves every table as it was
TablesKept ==
  UNCHANGED <<users, userSeq, comunidades, comSeq, etapas, etapaSeq, carismas, carismaSeq>>

\* the step is a statement of a report request: it answers one, or moves one
\* to or from its second await
ReportStep ==
  \/ resp' # resp /\ resp'.op = "relatorio"
  \/ reading' # reading

(* C12: a report request whose verified claims do not carry a true admin flag is
   refused with 403 and gets no data, whatever the report type, recognized or
   not, and never gets as far as the second statement of the charism report;
   and no statement of a report request changes a stored user, community,
   stage or charism. *)
C12_ReportsAdminOnlyReadOnly ==
  [][ReportStep =>
       /\ TablesKept
       /\ \A q \in (reading' \ reading) \cup (reading \ reading') :
            q.user.is_admin = Bool(TRUE)
       /\ (resp' # resp /\ resp'.user.is_admin # Bool(TRUE)) =>
            /\ resp'.status = 403
            /\ resp'.kind = "error"
            /\ resp'.data = NoData]_vars

\* a user registered without the admin flag asked for an unrecognized report
\* over a table holding communities, and was refused
C12_Witness ==
  /\ resp.op = "relatorio"
  /\ resp.arg.tipo = "outro"
  /\ resp.user.id \in {u.id : u \in users}
  /\ resp.user.is_admin = Bool(FALSE)
  /\ resp.status = 403
  /\ comunidades # {}

----------------------------------------------------------------------------
(* C13: PUT /api/user keeps what the request left out *)

\* the stored record of user id in table rows
StoredUser(rows, id) == CHOOSE u \in rows : u.id = id

Omitted(x) == x.t = "undefined"

(* C13: when the UPDATE of a PUT /api/user request that is answered ok runs,
   each of name, email and password hash the request omitted has the same
   stored value right after the write as right before it, whatever other
   requests ran since the request's SELECT; a supplied name or email is stored
   as given and a supplied password as its hash, never as the plaintext. *)
C13_OmittedFieldsKept ==
  [][\A p \in pending :
       (UserUpdate(p, TRUE) /\ resp'.status = 200) =>
         LET before == StoredUser(users, p.user.id)
             after == StoredUser(users', p.user.id)
         IN /\ Omitted(p.arg.name) => after.name = before.name
            /\ Omitted(p.arg.email) => after.email = before.email
            /\ Omitted(p.arg.password) => after.password = before.password
            /\ ~Omitted(p.arg.name) => after.name = p.arg.name
            /\ ~Omitted(p.arg.email) => after.email = p.arg.email
            /\ ~Omitted(p.arg.password) =>
                 /\ after.password = BcryptHash(p.arg.password)
                 /\ after.password # p.arg.password]_vars

====
